---- MODULE Spec2Model ----
(***************************************************************************)
(* Monoterm: the SGR filter of src/main.rs.                                *)
(*                                                                         *)
(* The filter receives the child's output in chunks (on_child_data), scans *)
(* it byte by byte (handle_byte) and rewrites complete SGR sequences       *)
(* (handle_sgr).  Bytes are the integers 0..255; a byte string is a        *)
(* sequence of bytes.  An Option<T> value is a set: None is {} and Some(x) *)
(* is {x}.                                                                 *)
(***************************************************************************)
EXTENDS Integers, Sequences, FiniteSets, TLC

VARIABLES
    bold_colors,     \* Filter.bold_colors
    state,           \* Filter.state: "Init", "AfterEsc" or "AfterCsi"
    background_set,  \* Filter.background_set
    video_reversed,  \* Filter.video_reversed
    foreground_set,  \* Filter.foreground_set
    intensity,       \* Filter.intensity: "High", "Low" or "Normal"
    buffer,          \* Filter.buffer
    input,           \* every byte given to on_child_data so far, in order
    output,          \* every byte given to parent_write so far, in order
    data,            \* the chunk of the most recent on_child_data call
    written,         \* the bytes that call gave to parent_write
    pre,             \* the filter as it was when that call started
    calls,           \* number of on_child_data calls so far
    finalized,       \* number of handle_sgr calls so far
    argv,            \* env::args_os().skip(1)
    parsed           \* what parse_args(argv) came to, None before main ran it

vars == <<bold_colors, state, background_set, video_reversed, foreground_set,
          intensity, buffer, input, output, data, written, pre, calls,
          finalized, argv, parsed>>

(***************************************************************************)
(* Bytes the code names.                                                   *)
(***************************************************************************)
ESC == 27
LBRACKET == 91
LOWER_M == 109
SEMICOLON == 59
ZERO == 48
NINE == 57
U8_MAX == 255

SGR_MAX_LEN == 128
DASH == 45
LOWER_B == 98
LOWER_H == 104
LOWER_V == 118

Some(x) == {x}
None == {}

\* The decimal text of one digit value.
Digit(d) == ZERO + d

(***************************************************************************)
(* Filter                                                                  *)
(***************************************************************************)
new(bold) ==
    [ bold_colors    |-> bold,
      state          |-> "Init",
      background_set |-> FALSE,
      video_reversed |-> FALSE,
      foreground_set |-> FALSE,
      intensity      |-> "Normal",
      buffer         |-> <<>> ]

\* parent_video_reversed with "or" for "differs".
parent_video_reversed_or(self) ==
    self.background_set \/ self.video_reversed

parent_video_reversed(self) ==
    self.background_set # self.video_reversed

\* parent_intensity without the test that no intensity was requested.
parent_intensity_always(self) ==
    IF self.bold_colors /\ self.foreground_set
    THEN "High"
    ELSE self.intensity

\* parent_intensity with a requested low intensity overridden as Normal is.
parent_intensity_low(self) ==
    IF /\ self.intensity # "High"
       /\ self.bold_colors
       /\ self.foreground_set
    THEN "High"
    ELSE self.intensity

parent_intensity(self) ==
    IF /\ self.intensity = "Normal"
       /\ self.bold_colors
       /\ self.foreground_set
    THEN "High"
    ELSE self.intensity

(***************************************************************************)
(* handle_sgr: the iterator over the parameters.                           *)
(***************************************************************************)
\* self.buffer.split(|b| *b == b';'): an empty slice gives one empty piece.
\* The pieces of a slice are those of its two halves, the last piece of the
\* first half and the first piece of the second being one piece.
RECURSIVE split(_)
split(s) ==
    IF s = <<>> THEN << <<>> >>
    ELSE IF Len(s) = 1
    THEN IF s[1] = SEMICOLON THEN << <<>>, <<>> >> ELSE <<s>>
    ELSE LET mid == Len(s) \div 2
             l   == split(SubSeq(s, 1, mid))
             r   == split(SubSeq(s, mid + 1, Len(s)))
         IN  SubSeq(l, 1, Len(l) - 1) \o <<l[Len(l)] \o r[1]>> \o Tail(r)

\* parse with wrapping_mul and wrapping_add.
RECURSIVE parse_wrapping(_, _)
parse_wrapping(arg, acc) ==
    IF arg = <<>> THEN Some(acc)
    ELSE IF Head(arg) \notin ZERO..NINE THEN None
    ELSE parse_wrapping(Tail(arg),
                        (acc * 10 + (Head(arg) - ZERO)) % (U8_MAX + 1))

\* str::parse::<u8>: digit by digit with checked_mul and checked_add.
RECURSIVE parse(_, _)
parse(arg, acc) ==
    IF arg = <<>> THEN Some(acc)
    ELSE IF Head(arg) \notin ZERO..NINE THEN None
    ELSE LET v == acc * 10 + (Head(arg) - ZERO)
         IN  IF v > U8_MAX THEN None ELSE parse(Tail(arg), v)

\* arg_value without the arm for the empty slice: "".parse() fails.
arg_value_no_empty(arg) ==
    IF arg = <<>> THEN None ELSE parse(arg, 0)

\* The closure of the map: [] => Some(0), otherwise the parsed number.
arg_value(arg) ==
    IF arg = <<>> THEN Some(0) ELSE parse(arg, 0)

\* The items (arg, n) the iterator yields, in order.
sgr_args(buf) ==
    LET parts == split(buf)
    IN  [i \in 1..Len(parts) |-> [arg |-> parts[i], n |-> arg_value(parts[i])]]

\* iter.next() on the items `args` with the cursor at `pos`: the item, as an
\* Option of the item's n, and the cursor afterwards.
iter_next(args, pos) ==
    IF pos <= Len(args)
    THEN [item |-> Some(args[pos].n), pos |-> pos + 1]
    ELSE [item |-> None, pos |-> pos]

\* skip_38_48 with an item that is neither 5 nor 2 left in the iterator.
skip_38_48_peek(args, pos) ==
    LET first == iter_next(args, pos)
    IN  IF first.item = Some(Some(5))
        THEN iter_next(args, first.pos).pos
        ELSE IF first.item = Some(Some(2))
        THEN LET r == iter_next(args, first.pos)
                 g == iter_next(args, r.pos)
                 b == iter_next(args, g.pos)
             IN  b.pos
        ELSE pos

\* skip_38_48 with one next() too few after a 5.
skip_38_48_short(args, pos) ==
    LET first == iter_next(args, pos)
    IN  IF first.item = Some(Some(5))
        THEN first.pos
        ELSE IF first.item = Some(Some(2))
        THEN LET r == iter_next(args, first.pos)
                 g == iter_next(args, r.pos)
                 b == iter_next(args, g.pos)
             IN  b.pos
        ELSE first.pos

skip_38_48(args, pos) ==
    LET first == iter_next(args, pos)
    IN  IF first.item = Some(Some(5))
        THEN iter_next(args, first.pos).pos
        ELSE IF first.item = Some(Some(2))
        THEN LET r == iter_next(args, first.pos)
                 g == iter_next(args, r.pos)
                 b == iter_next(args, g.pos)
             IN  b.pos
        ELSE first.pos

\* write_arg with the separator written before the first argument too.
write_arg_separator(st, arg) ==
    [st EXCEPT !.out = (IF st.any_written THEN @ ELSE <<ESC, LBRACKET>>)
                       \o <<SEMICOLON>> \o arg,
               !.any_written = TRUE]

\* write_arg on the loop state st: "\x1b[" before the first argument, ";"
\* before every later one.
write_arg(st, arg) ==
    [st EXCEPT !.out = @ \o (IF st.any_written
                             THEN <<SEMICOLON>>
                             ELSE <<ESC, LBRACKET>>) \o arg,
               !.any_written = TRUE]

\* sgr_reset without the two assignments to the snapshot.
sgr_reset_keep_snapshot(st) ==
    write_arg([st EXCEPT !.self.background_set = FALSE,
                         !.self.video_reversed = FALSE,
                         !.self.foreground_set = FALSE,
                         !.self.intensity = "Normal"],
              <<ZERO>>)

\* The arm Some(0).
sgr_reset(st) ==
    write_arg([st EXCEPT !.self.background_set = FALSE,
                         !.self.video_reversed = FALSE,
                         !.self.foreground_set = FALSE,
                         !.self.intensity = "Normal",
                         !.reversed = FALSE,
                         !.intensity = "Normal"],
              <<ZERO>>)

\* One turn of the while loop: st.pos is already past the item (arg, n).
sgr_match(args, st, arg, n) ==
    IF n = Some(0) THEN sgr_reset(st)
    ELSE IF n = Some(1) THEN [st EXCEPT !.self.intensity = "High"]
    ELSE IF n = Some(2) THEN [st EXCEPT !.self.intensity = "Low"]
    ELSE IF n = Some(22) THEN [st EXCEPT !.self.intensity = "Normal"]
    ELSE IF n # None /\ n \subseteq ((30..37) \cup (90..97))
    THEN [st EXCEPT !.self.foreground_set = TRUE]
    ELSE IF n = Some(38)
    THEN [st EXCEPT !.pos = skip_38_48(args, st.pos),
                    !.self.foreground_set = TRUE]
    ELSE IF n = Some(39) THEN [st EXCEPT !.self.foreground_set = FALSE]
    ELSE IF n = Some(58) \/ n = Some(59) THEN st
    ELSE IF n = Some(7) THEN [st EXCEPT !.self.video_reversed = TRUE]
    ELSE IF n = Some(27) THEN [st EXCEPT !.self.video_reversed = FALSE]
    ELSE IF n # None /\ n \subseteq (40..47)
    THEN [st EXCEPT !.self.background_set = TRUE]
    ELSE IF n = Some(48)
    THEN [st EXCEPT !.pos = skip_38_48(args, st.pos),
                    !.self.background_set = TRUE]
    ELSE IF n = Some(49) THEN [st EXCEPT !.self.background_set = FALSE]
    ELSE IF n # None /\ n \subseteq (100..107)
    THEN [st EXCEPT !.self.background_set = TRUE]
    ELSE write_arg(st, arg)

\* The turn of the while loop that iter.next() starts with the item at i; no
\* turn starts there when skip_38_48 has moved the cursor past i.
sgr_turn(args, st, i) ==
    IF st.pos # i THEN st
    ELSE sgr_match(args, [st EXCEPT !.pos = iter_next(args, st.pos).pos],
                   args[i].arg, args[i].n)

\* The while loop over the items lo..hi, in order (the first half, then the
\* second).
RECURSIVE sgr_loop(_, _, _, _)
sgr_loop(args, st, lo, hi) ==
    IF lo > hi THEN st
    ELSE IF lo = hi THEN sgr_turn(args, st, lo)
    ELSE LET mid == (lo + hi) \div 2
             st1 == sgr_loop(args, st, lo, mid)
         IN  IF st1.pos > hi THEN st1 ELSE sgr_loop(args, st1, mid + 1, hi)

\* The token for a changed reverse video.
sgr_reversed(st) ==
    LET new_reversed == parent_video_reversed(st.self)
    IN  IF new_reversed # st.reversed
        THEN write_arg(st, IF new_reversed
                           THEN <<Digit(7)>>
                           ELSE <<Digit(2), Digit(7)>>)
        ELSE st

\* sgr_intensity with 21 for Normal.
sgr_intensity_21(st) ==
    LET new_intensity == parent_intensity(st.self)
    IN  IF new_intensity # st.intensity
        THEN write_arg(st, CASE new_intensity = "High" -> <<Digit(1)>>
                             [] new_intensity = "Low" -> <<Digit(2)>>
                             [] new_intensity = "Normal" -> <<Digit(2), Digit(1)>>)
        ELSE st

\* The token for a changed intensity.
sgr_intensity(st) ==
    LET new_intensity == parent_intensity(st.self)
    IN  IF new_intensity # st.intensity
        THEN write_arg(st, CASE new_intensity = "High" -> <<Digit(1)>>
                             [] new_intensity = "Low" -> <<Digit(2)>>
                             [] new_intensity = "Normal" -> <<Digit(2), Digit(2)>>)
        ELSE st

\* handle_sgr with the final 'm' written whether or not a parameter was.
handle_sgr_always_m(self) ==
    LET st0 == [ self        |-> self,
                 reversed    |-> parent_video_reversed(self),
                 intensity   |-> parent_intensity(self),
                 out         |-> <<>>,
                 any_written |-> FALSE,
                 pos         |-> 1 ]
        args == sgr_args(self.buffer)
        st1 == sgr_loop(args, st0, 1, Len(args))
        st2 == sgr_intensity(sgr_reversed(st1))
    IN  [ self |-> st2.self,
          w    |-> st2.out \o <<LOWER_M>> ]

\* The result is the filter afterwards (self) and the bytes written (w).
handle_sgr(self) ==
    LET st0 == [ self        |-> self,
                 reversed    |-> parent_video_reversed(self),
                 intensity   |-> parent_intensity(self),
                 out         |-> <<>>,
                 any_written |-> FALSE,
                 pos         |-> 1 ]
        args == sgr_args(self.buffer)
        st1 == sgr_loop(args, st0, 1, Len(args))
        st2 == sgr_intensity(sgr_reversed(st1))
    IN  [ self |-> st2.self,
          w    |-> IF st2.any_written THEN st2.out \o <<LOWER_M>> ELSE st2.out ]

(***************************************************************************)
(* handle_byte                                                             *)
(***************************************************************************)
\* is_param with "<=" for "<".
is_param_le(self, b) ==
    /\ b \in (ZERO..NINE) \cup {SEMICOLON}
    /\ Len(self.buffer) <= SGR_MAX_LEN

\* The guard of the arm that pushes a parameter byte.
is_param(self, b) ==
    /\ b \in (ZERO..NINE) \cup {SEMICOLON}
    /\ Len(self.buffer) < SGR_MAX_LEN

\* byte_init with '[' taken for a sequence start without the ESC before it.
byte_init_bare_csi(self, b) ==
    IF b = ESC
    THEN [self |-> [self EXCEPT !.state = "AfterEsc"], w |-> <<>>]
    ELSE IF b = LBRACKET
    THEN [self |-> [self EXCEPT !.state = "AfterCsi", !.buffer = <<>>],
          w |-> <<>>]
    ELSE [self |-> self, w |-> <<b>>]

\* The arm SgrState::Init.
byte_init(self, b) ==
    IF b = ESC
    THEN [self |-> [self EXCEPT !.state = "AfterEsc"], w |-> <<>>]
    ELSE [self |-> self, w |-> <<b>>]

\* byte_after_esc with the ESC left out when the byte after it is not '['.
byte_after_esc_drop_esc(self, b) ==
    IF b = LBRACKET
    THEN [self |-> [self EXCEPT !.state = "AfterCsi", !.buffer = <<>>],
          w |-> <<>>]
    ELSE [self |-> [self EXCEPT !.state = "Init"], w |-> <<b>>]

\* byte_after_esc without buffer.clear().
byte_after_esc_no_clear(self, b) ==
    IF b = LBRACKET
    THEN [self |-> [self EXCEPT !.state = "AfterCsi"], w |-> <<>>]
    ELSE [self |-> [self EXCEPT !.state = "Init"], w |-> <<ESC, b>>]

\* The arm SgrState::AfterEsc.
byte_after_esc(self, b) ==
    IF b = LBRACKET
    THEN [self |-> [self EXCEPT !.state = "AfterCsi", !.buffer = <<>>],
          w |-> <<>>]
    ELSE [self |-> [self EXCEPT !.state = "Init"], w |-> <<ESC, b>>]

\* byte_after_csi with reverse video switched off in the last arm.
byte_after_csi_clears(self, b) ==
    IF b = LOWER_M
    THEN handle_sgr([self EXCEPT !.state = "Init"])
    ELSE IF is_param(self, b)
    THEN [self |-> [self EXCEPT !.buffer = Append(@, b)], w |-> <<>>]
    ELSE [self |-> [self EXCEPT !.state = "Init", !.video_reversed = FALSE],
          w |-> <<ESC, LBRACKET>> \o self.buffer \o <<b>>]

\* byte_after_csi with the buffered parameters left out of the last arm.
byte_after_csi_no_params(self, b) ==
    IF b = LOWER_M
    THEN handle_sgr([self EXCEPT !.state = "Init"])
    ELSE IF is_param(self, b)
    THEN [self |-> [self EXCEPT !.buffer = Append(@, b)], w |-> <<>>]
    ELSE [self |-> [self EXCEPT !.state = "Init"],
          w |-> <<ESC, LBRACKET, b>>]

\* The arm SgrState::AfterCsi.
byte_after_csi(self, b) ==
    IF b = LOWER_M
    THEN handle_sgr([self EXCEPT !.state = "Init"])
    ELSE IF is_param(self, b)
    THEN [self |-> [self EXCEPT !.buffer = Append(@, b)], w |-> <<>>]
    ELSE [self |-> [self EXCEPT !.state = "Init"],
          w |-> <<ESC, LBRACKET>> \o self.buffer \o <<b>>]

handle_byte(self, b) ==
    CASE self.state = "Init" -> byte_init(self, b)
      [] self.state = "AfterEsc" -> byte_after_esc(self, b)
      [] self.state = "AfterCsi" -> byte_after_csi(self, b)

(***************************************************************************)
(* on_child_data                                                           *)
(***************************************************************************)
\* data.iter().copied().for_each(...): handle_byte on the bytes in order (the
\* first half, then the second), with what the calls wrote, in order.
RECURSIVE for_each(_, _)
for_each(self, bytes) ==
    IF bytes = <<>> THEN [self |-> self, w |-> <<>>]
    ELSE IF Len(bytes) = 1 THEN handle_byte(self, bytes[1])
    ELSE LET mid == Len(bytes) \div 2
             a   == for_each(self, SubSeq(bytes, 1, mid))
             b   == for_each(a.self, SubSeq(bytes, mid + 1, Len(bytes)))
         IN  [w |-> a.w \o b.w, self |-> b.self]

\* on_child_data with the scanner started in Init at every call.
on_child_data_fresh_scanner(self, bytes) ==
    for_each([self EXCEPT !.state = "Init"], bytes)

on_child_data(self, bytes) ==
    for_each(self, bytes)

\* How many of the bytes reach handle_sgr: those that are 'm' and find the
\* scanner in AfterCsi.
RECURSIVE handle_sgr_calls(_, _)
handle_sgr_calls(self, bytes) ==
    IF bytes = <<>> THEN 0
    ELSE IF Len(bytes) = 1
    THEN IF self.state = "AfterCsi" /\ bytes[1] = LOWER_M THEN 1 ELSE 0
    ELSE LET mid == Len(bytes) \div 2
             a   == for_each(self, SubSeq(bytes, 1, mid))
         IN  handle_sgr_calls(self, SubSeq(bytes, 1, mid))
                 + handle_sgr_calls(a.self, SubSeq(bytes, mid + 1, Len(bytes)))

(***************************************************************************)
(* parse_args.  An argument is its bytes; a call of exit is the field exit *)
(* of the result: the status and what was printed to which stream.         *)
(***************************************************************************)
\* "--help", "--version" and "--bold".
LongHelp == <<DASH, DASH, LOWER_H, 101, 108, 112>>
LongVersion == <<DASH, DASH, LOWER_V, 101, 114, 115, 105, 111, 110>>
LongBold == <<DASH, DASH, LOWER_B, 111, 108, 100>>

show_usage == Some([code |-> 0, stdout |-> "USAGE", stderr |-> ""])
show_version == Some([code |-> 0, stdout |-> "VERSION", stderr |-> ""])
args_error == Some([code |-> 1, stdout |-> "", stderr |-> "error"])

starts_with(bytes, prefix) ==
    /\ Len(bytes) >= Len(prefix)
    /\ SubSeq(bytes, 1, Len(prefix)) = prefix

strip_prefix(bytes, prefix) ==
    IF starts_with(bytes, prefix)
    THEN Some(SubSeq(bytes, Len(prefix) + 1, Len(bytes)))
    ELSE None

\* One turn of opts.iter().copied().for_each: nothing runs after an exit.
short_option(st, opt) ==
    IF st.exit # None THEN st
    ELSE IF opt = LOWER_H THEN [st EXCEPT !.exit = show_usage]
    ELSE IF opt = LOWER_V THEN [st EXCEPT !.exit = show_version]
    ELSE IF opt = LOWER_B THEN [st EXCEPT !.bold = TRUE]
    ELSE [st EXCEPT !.exit = args_error]

RECURSIVE short_options(_, _)
short_options(st, opts) ==
    IF opts = <<>> THEN st
    ELSE short_options(short_option(st, Head(opts)), Tail(opts))

\* process_arg with a "--" after the first taken for the end of the options
\* again.
process_arg_every_dashes(st, arg) ==
    IF arg = <<DASH, DASH>> THEN [st EXCEPT !.options_done = TRUE]
    ELSE IF st.options_done \/ arg = <<DASH>>
    THEN [st EXCEPT !.options_done = TRUE, !.command = Append(@, arg)]
    ELSE IF arg = LongHelp THEN [st EXCEPT !.exit = show_usage]
    ELSE IF arg = LongVersion THEN [st EXCEPT !.exit = show_version]
    ELSE IF arg = LongBold THEN [st EXCEPT !.bold = TRUE]
    ELSE IF starts_with(arg, <<DASH, DASH>>)
    THEN [st EXCEPT !.exit = args_error]
    ELSE IF strip_prefix(arg, <<DASH>>) # None
    THEN short_options(st, SubSeq(arg, 2, Len(arg)))
    ELSE [st EXCEPT !.options_done = TRUE, !.command = Append(@, arg)]

\* The closure process_arg, and what filter does with its result: an
\* argument for which it returns true is collected into command.
process_arg(st, arg) ==
    IF st.options_done \/ arg = <<DASH>>
    THEN [st EXCEPT !.options_done = TRUE, !.command = Append(@, arg)]
    ELSE IF arg = <<DASH, DASH>> THEN [st EXCEPT !.options_done = TRUE]
    ELSE IF arg = LongHelp THEN [st EXCEPT !.exit = show_usage]
    ELSE IF arg = LongVersion THEN [st EXCEPT !.exit = show_version]
    ELSE IF arg = LongBold THEN [st EXCEPT !.bold = TRUE]
    ELSE IF starts_with(arg, <<DASH, DASH>>)
    THEN [st EXCEPT !.exit = args_error]
    ELSE IF strip_prefix(arg, <<DASH>>) # None
    THEN short_options(st, SubSeq(arg, 2, Len(arg)))
    ELSE [st EXCEPT !.options_done = TRUE, !.command = Append(@, arg)]

\* args.into_iter().filter(|a| process_arg(a)).collect(), up to an exit.
RECURSIVE filter_collect(_, _)
filter_collect(st, args) ==
    IF args = <<>> \/ st.exit # None THEN st
    ELSE filter_collect(process_arg(st, Head(args)), Tail(args))

parse_args(args) ==
    LET st == filter_collect([ bold         |-> FALSE,
                               options_done |-> FALSE,
                               command      |-> <<>>,
                               exit         |-> None ], args)
    IN  IF st.exit = None /\ st.command = <<>>
        THEN [ command |-> st.command,
               bold    |-> st.bold,
               exit    |-> Some([code |-> 1, stdout |-> "", stderr |-> "USAGE"]) ]
        ELSE [ command |-> st.command, bold |-> st.bold, exit |-> st.exit ]

\* The filter object made of the state variables.
Self ==
    [ bold_colors    |-> bold_colors,
      state          |-> state,
      background_set |-> background_set,
      video_reversed |-> video_reversed,
      foreground_set |-> foreground_set,
      intensity      |-> intensity,
      buffer         |-> buffer ]

\* "ls", the command in the arguments the filter is started with.
Command == <<108, 115>>

\* With and without -b.
StartArgs == { <<Command>>, <<<<DASH, LOWER_B>>, Command>> }

\* main: parse_args and Filter::new(args.bold) are done, the runner has not
\* delivered anything.
Init ==
    /\ argv \in StartArgs
    /\ parsed = Some(parse_args(argv))
    /\ bold_colors = parse_args(argv).bold
    /\ state = new(bold_colors).state
    /\ background_set = new(bold_colors).background_set
    /\ video_reversed = new(bold_colors).video_reversed
    /\ foreground_set = new(bold_colors).foreground_set
    /\ intensity = new(bold_colors).intensity
    /\ buffer = new(bold_colors).buffer
    /\ input = <<>>
    /\ output = <<>>
    /\ data = <<>>
    /\ written = <<>>
    /\ pre = new(bold_colors)
    /\ calls = 0
    /\ finalized = 0

\* The runner calls on_child_data with one chunk read from the child.
Deliver(chunk) ==
    \E r \in {on_child_data(Self, chunk)} :
        /\ bold_colors' = r.self.bold_colors
        /\ state' = r.self.state
        /\ background_set' = r.self.background_set
        /\ video_reversed' = r.self.video_reversed
        /\ foreground_set' = r.self.foreground_set
        /\ intensity' = r.self.intensity
        /\ buffer' = r.self.buffer
        /\ input' = input \o chunk
        /\ output' = output \o r.w
        /\ data' = chunk
        /\ written' = r.w
        /\ pre' = Self
        /\ calls' = calls + 1
        /\ finalized' = finalized + handle_sgr_calls(Self, chunk)
        /\ UNCHANGED <<argv, parsed>>

(***************************************************************************)
(* Byte strings.                                                           *)
(***************************************************************************)
\* The decimal text of n.
RECURSIVE Dec(_)
Dec(n) == IF n < 10 THEN <<Digit(n)>> ELSE Dec(n \div 10) \o <<Digit(n % 10)>>

\* The texts of toks with ';' between them.
RECURSIVE Join(_)
Join(toks) ==
    IF toks = <<>> THEN <<>>
    ELSE IF Len(toks) = 1 THEN toks[1]
    ELSE LET mid == Len(toks) \div 2
         IN  Join(SubSeq(toks, 1, mid)) \o <<SEMICOLON>>
                 \o Join(SubSeq(toks, mid + 1, Len(toks)))

\* ESC '[' params 'm'.
Sgr(params) == <<ESC, LBRACKET>> \o params \o <<LOWER_M>>

\* The SGR sequence whose parameters are the numbers codes.
SgrOf(codes) == Sgr(Join([i \in DOMAIN codes |-> Dec(codes[i])]))

\* The four fields of the semantic model of a filter.
ModelOf(f) ==
    [ background_set |-> f.background_set,
      video_reversed |-> f.video_reversed,
      foreground_set |-> f.foreground_set,
      intensity      |-> f.intensity ]

NoEsc(s) == \A i \in 1..Len(s) : s[i] # ESC

(***************************************************************************)
(* The chunks the runner delivers.  A read from the child may return any  *)
(* byte string, so a chunk set holds single bytes and longer pieces.       *)
(***************************************************************************)
MaxScanCalls == 5

\* 'J', the byte that ends ESC[2J.
NonSgrFinal == {74}

\* Single bytes, and two pieces that cut a sequence at other places.
ScanChunks ==
    { <<ESC>>, <<LBRACKET>>, <<LOWER_M>>, <<SEMICOLON>>, <<Digit(1)>>,
      <<ESC, LBRACKET>>, <<Digit(3), Digit(1)>> }
    \cup { <<b>> : b \in NonSgrFinal }

Next ==
    \E chunk \in ScanChunks : calls < MaxScanCalls /\ Deliver(chunk)

Spec == Init /\ [][Next]_vars

(***************************************************************************)
(* Properties of the scanner, checked under Spec.                          *)
(***************************************************************************)
ParamBytes == (ZERO..NINE) \cup {SEMICOLON}

\* C1: a stream without any ESC byte comes out exactly as it went in, and
\* leaves the scanner in Init and the semantic model as constructed.
C1_NoEscapeIsIdentity ==
    NoEsc(input) =>
        /\ output = input
        /\ state = "Init"
        /\ ModelOf(Self) = ModelOf(new(bold_colors))

\* '[', digits and 'm' without ESC, over three calls.
C1_Witness ==
    /\ NoEsc(input)
    /\ calls >= 3
    /\ input = <<LBRACKET, Digit(3), Digit(1), LOWER_M>>
    /\ output = input

\* The value a terminal reads from a parameter: its decimal value, 0 if empty.
RECURSIVE DecValue(_)
DecValue(tok) ==
    IF tok = <<>> THEN 0
    ELSE DecValue(SubSeq(tok, 1, Len(tok) - 1)) * 10 + (tok[Len(tok)] - ZERO)

ColorCodes == (30..49) \cup (90..97) \cup (100..107)

\* s[i..j] is ESC '[' digits-and-';' 'm' and one parameter is a color code.
IsColorSgr(s, i, j) ==
    /\ i + 1 < j
    /\ s[i] = ESC
    /\ s[i + 1] = LBRACKET
    /\ s[j] = LOWER_M
    /\ \A k \in (i + 2)..(j - 1) : s[k] \in ParamBytes
    /\ LET toks == split(SubSeq(s, i + 2, j - 1))
       IN  \E t \in 1..Len(toks) : DecValue(toks[t]) \in ColorCodes

HasColorSgr(s) ==
    \E i \in 1..Len(s) : \E j \in 1..Len(s) : IsColorSgr(s, i, j)

\* C2: the output never contains an SGR sequence with a color code.
C2_NoColorInOutput == ~HasColorSgr(output)

\* C6: a parameter run below the capacity that ends with a byte other than
\* 'm' is written as ESC '[' params terminator when the terminator arrives;
\* the scanner is back in Init and the semantic model is as before.
C6_NonSgrCsiForwarded ==
    /\ ( /\ pre.state = "AfterCsi"
         /\ Len(pre.buffer) < SGR_MAX_LEN
         /\ Len(data) = 1
         /\ data[1] \notin ParamBytes \cup {LOWER_M} )
       => /\ written = <<ESC, LBRACKET>> \o pre.buffer \o data
          /\ state = "Init"
          /\ ModelOf(Self) = ModelOf(pre)
    /\ ( /\ Len(input) >= 3
         /\ Len(input) < SGR_MAX_LEN
         /\ input[1] = ESC
         /\ input[2] = LBRACKET
         /\ \A k \in 3..(Len(input) - 1) : input[k] \in ParamBytes
         /\ input[Len(input)] \notin ParamBytes \cup {LOWER_M} )
       => /\ output = input
          /\ state = "Init"
          /\ ModelOf(Self) = ModelOf(new(bold_colors))

\* ESC [ 3 1 ; 1 J has gone through, the 'J' in a call of its own.
C6_Witness ==
    /\ pre.state = "AfterCsi"
    /\ pre.buffer = <<Digit(3), Digit(1), SEMICOLON, Digit(1)>>
    /\ data[1] \in NonSgrFinal
    /\ written = input
    /\ state = "Init"

(***************************************************************************)
(* The SGR sequence the most recent call completed.                        *)
(***************************************************************************)
\* d is ESC '[' digits-and-';' 'm'.
IsSgrChunk(d) ==
    /\ Len(d) >= 3
    /\ d[1] = ESC
    /\ d[2] = LBRACKET
    /\ d[Len(d)] = LOWER_M
    /\ \A k \in 3..(Len(d) - 1) : d[k] \in ParamBytes

ParamsOf(d) == SubSeq(d, 3, Len(d) - 1)

\* The call delivered a whole sequence to a scanner in Init, or the 'm' that
\* ends the parameters buffered before.
SgrCompleted ==
    \/ /\ pre.state = "Init"
       /\ IsSgrChunk(data)
       /\ Len(ParamsOf(data)) <= SGR_MAX_LEN
    \/ /\ pre.state = "AfterCsi"
       /\ data = <<LOWER_M>>

CompletedParams ==
    IF pre.state = "Init" THEN ParamsOf(data) ELSE pre.buffer

SgrDone(params) == SgrCompleted /\ CompletedParams = params

(***************************************************************************)
(* Color codes, checked under SpecColor: every call delivers one sequence  *)
(* with a single code, or one of the two pieces of ESC [ 4 1 m.            *)
(***************************************************************************)
MaxColorCalls == 3

ColorChunks ==
    { SgrOf(<<c>>) : c \in {40, 47, 100, 107, 49, 7, 27,
                            30, 37, 90, 97, 39, 1, 2, 0, 22} }
    \cup { SgrOf(<<38, 5, 22>>) }
    \cup { <<ESC, LBRACKET, Digit(4), Digit(1)>>, <<LOWER_M>> }

NextColor ==
    \E chunk \in ColorChunks : calls < MaxColorCalls /\ Deliver(chunk)

SpecColor == Init /\ [][NextColor]_vars

BackgroundCodes == (40..47) \cup (100..107)
ForegroundCodes == (30..37) \cup (90..97)

\* The parameter texts of the codes, and the sequences the claims name.
BackgroundParams == {Dec(c) : c \in BackgroundCodes}
ForegroundParams == {Dec(c) : c \in ForegroundCodes}
BackgroundAlone == {SgrOf(<<c>>) : c \in BackgroundCodes}
BackgroundThenDefault == {SgrOf(<<c>>) \o SgrOf(<<49>>) : c \in BackgroundCodes}

\* C3: a single background code writes ESC[7m when the background was not
\* set and reverse video was off, ESC[27m when it was not set and reverse
\* video was on, and nothing when it was set; a single 49 is the mirror
\* image; a background code (ESC[41m) sent to a new filter gives ESC[7m and
\* ESC[49m after it gives ESC[27m.
C3_BackgroundAsReverse ==
    /\ (SgrCompleted /\ CompletedParams \in BackgroundParams) =>
           written = IF pre.background_set THEN <<>>
                     ELSE IF pre.video_reversed THEN SgrOf(<<27>>)
                     ELSE SgrOf(<<7>>)
    /\ SgrDone(Dec(49)) =>
           written = IF ~pre.background_set THEN <<>>
                     ELSE IF pre.video_reversed THEN SgrOf(<<7>>)
                     ELSE SgrOf(<<27>>)
    /\ input \in BackgroundAlone => output = SgrOf(<<7>>)
    /\ input \in BackgroundThenDefault
           => output = SgrOf(<<7>>) \o SgrOf(<<27>>)

\* A background code arrives while reverse video is on: ESC[27m.
C3_Witness ==
    /\ SgrDone(Dec(107))
    /\ ~pre.background_set
    /\ pre.video_reversed
    /\ written = SgrOf(<<27>>)

\* C4: a single foreground code writes nothing with bold disabled; with bold
\* enabled it writes ESC[1m exactly when no foreground was set and the
\* intensity was Normal, and nothing otherwise; foreground_set becomes true.
C4_ForegroundAsBold ==
    (SgrCompleted /\ CompletedParams \in ForegroundParams) =>
        /\ written = IF /\ bold_colors
                        /\ ~pre.foreground_set
                        /\ pre.intensity = "Normal"
                     THEN SgrOf(<<1>>)
                     ELSE <<>>
        /\ foreground_set

\* Bold enabled, a foreground code after the child asked for low intensity.
C4_Witness ==
    /\ SgrDone(Dec(90))
    /\ bold_colors
    /\ ~pre.foreground_set
    /\ pre.intensity = "Low"
    /\ written = <<>>
    /\ foreground_set

(***************************************************************************)
(* What the rewriter is to do with a parameter list, read off the dispatch *)
(* table: which parameters are dispatched, which are taken by a 38 or 48   *)
(* before them, and which codes the table names.                           *)
(***************************************************************************)
TableCodes ==
    {0, 1, 2, 22, 7, 27, 58, 59} \cup (30..49) \cup (90..97) \cup (100..107)

\* Unparseable texts are those above 255; no code of the table is.
InTable(tok) == DecValue(tok) \in TableCodes

IsZero(tok) == DecValue(tok) = 0

\* How many of the parameters `rest` a 38 or 48 before them takes: the one
\* after it, one more if that is 5, three more if that is 2.
Taken(rest) ==
    LET want == IF rest = <<>> THEN 0
                ELSE IF DecValue(rest[1]) = 5 THEN 2
                ELSE IF DecValue(rest[1]) = 2 THEN 4
                ELSE 1
    IN  IF want > Len(rest) THEN Len(rest) ELSE want

\* For each parameter, TRUE if it is dispatched and FALSE if it is taken.
RECURSIVE Marks(_)
Marks(toks) ==
    IF toks = <<>> THEN <<>>
    ELSE IF DecValue(toks[1]) \in {38, 48}
    THEN LET k == Taken(Tail(toks))
         IN  <<TRUE>> \o [i \in 1..k |-> FALSE]
                      \o Marks(SubSeq(toks, k + 2, Len(toks)))
    ELSE <<TRUE>> \o Marks(Tail(toks))

\* The parameters at the positions in keep, in order.
RECURSIVE Pick(_, _, _)
Pick(toks, keep, i) ==
    IF i > Len(toks) THEN <<>>
    ELSE (IF i \in keep THEN <<toks[i]>> ELSE <<>>) \o Pick(toks, keep, i + 1)

\* The positions of the parameters that are dispatched and not in the table.
ForwardedAt(toks) ==
    LET marks == Marks(toks)
    IN  {i \in 1..Len(toks) : marks[i] /\ ~InTable(toks[i])}

\* The positions of the parameters that are dispatched as code 0.
ZeroAt(toks) ==
    LET marks == Marks(toks)
    IN  {i \in 1..Len(toks) : marks[i] /\ IsZero(toks[i])}

\* The parameters of the sequence written by the call, if it wrote one.
WrittenParams ==
    IF written = <<>> THEN <<>> ELSE split(ParamsOf(written))

\* The texts handle_sgr appends for a changed reverse video or intensity.
DerivedTexts == {Dec(7), Dec(27), Dec(1), Dec(2), Dec(22)}

NotInTable(tok) == ~InTable(tok)
NotDerived(tok) == tok \notin DerivedTexts
ZeroText(tok) == IF IsZero(tok) THEN Dec(0) ELSE tok

\* The filter after handle_sgr on the parameters toks, started from f.
After(f, toks) ==
    handle_sgr([f EXCEPT !.state = "Init", !.buffer = Join(toks)]).self

(***************************************************************************)
(* Parameter lists, checked under SpecArgs: every call delivers one whole  *)
(* sequence.                                                               *)
(***************************************************************************)
MaxArgsCalls == 3

ArgsChunks ==
    { SgrOf(codes) : codes \in
        { <<7>>, <<41>>, <<31>>, <<4>>, <<4, 5>>, <<4, 31, 5>>,
          <<256, 9>>, <<0>>, <<4, 0, 5>>, <<0, 7>>, <<7, 0>>,
          <<38, 4, 4>>, <<4, 0, 41, 31>> } }
    \cup { Sgr(<<>>),
           Sgr(<<SEMICOLON>>),
           Sgr(<<Digit(4), SEMICOLON, SEMICOLON, Digit(5)>>) }

NextArgs ==
    \E chunk \in ArgsChunks : calls < MaxArgsCalls /\ Deliver(chunk)

SpecArgs == Init /\ [][NextArgs]_vars

\* C5: the parameters that are dispatched and not in the table are written
\* with their text, in their order; the semantic model ends as it would
\* without them; a sequence of such parameters alone is written as it came.
C5_UnrecognizedForwarded ==
    SgrCompleted =>
        LET toks == split(CompletedParams)
            fwd  == ForwardedAt(toks)
            rest == Pick(toks, (1..Len(toks)) \ fwd, 1)
        IN  /\ written = <<>> \/ IsSgrChunk(written)
            /\ SelectSeq(WrittenParams, NotInTable) = Pick(toks, fwd, 1)
            /\ ModelOf(Self) = IF rest = <<>> THEN ModelOf(pre)
                               ELSE ModelOf(After(pre, rest))
            /\ fwd = 1..Len(toks)
                   => /\ written = Sgr(CompletedParams)
                      /\ ModelOf(Self) = ModelOf(pre)

\* 4;31;5 while a background is set: 4 and 5 are written, 31 is not.
C5_Witness ==
    /\ SgrDone(Join(<<Dec(4), Dec(31), Dec(5)>>))
    /\ pre.background_set
    /\ ~bold_colors
    /\ written = SgrOf(<<4, 5>>)
    /\ ModelOf(Self) = [ModelOf(pre) EXCEPT !.foreground_set = TRUE]

\* C7: a parameter 0 or an empty parameter resets the four fields and is
\* written as 0 at its place among the written parameters; ESC[0m to a new
\* filter gives ESC[0m alone, and so does ESC[m.
C7_ResetCode ==
    /\ SgrCompleted =>
          LET toks  == split(CompletedParams)
              zeros == ZeroAt(toks)
              last  == CHOOSE i \in zeros : \A j \in zeros : j <= i
              tail  == SubSeq(toks, last + 1, Len(toks))
          IN  /\ SelectSeq(WrittenParams, NotDerived)
                    = [i \in 1..Len(Pick(toks, zeros \cup ForwardedAt(toks), 1))
                          |-> ZeroText(Pick(toks, zeros \cup ForwardedAt(toks), 1)[i])]
              /\ zeros # {} =>
                    ModelOf(Self) =
                        IF tail = <<>> THEN ModelOf(new(bold_colors))
                        ELSE ModelOf(After(new(bold_colors), tail))
    /\ SgrDone(Dec(0)) \/ SgrDone(<<>>) =>
          /\ written = SgrOf(<<0>>)
          /\ ModelOf(Self) = ModelOf(new(bold_colors))
    /\ input \in {SgrOf(<<0>>), Sgr(<<>>)} => output = SgrOf(<<0>>)

\* ESC[m while a background and reverse video are set resets both.
C7_Witness ==
    /\ SgrDone(<<>>)
    /\ pre.background_set
    /\ pre.video_reversed
    /\ written = SgrOf(<<0>>)
    /\ ModelOf(Self) = ModelOf(new(bold_colors))

(***************************************************************************)
(* Extended colors, checked under SpecExt: every call delivers one whole   *)
(* sequence, most of them with a 38 or 48 and what follows it.             *)
(***************************************************************************)
MaxExtCalls == 3

ExtChunks ==
    { SgrOf(codes) : codes \in
        { <<7>>, <<41>>, <<1>>,
          <<38, 5, 0>>, <<38, 5, 1>>, <<38, 5, 7>>, <<38, 5, 999>>,
          <<48, 5, 0>>, <<48, 5, 7>>,
          <<38, 2, 10, 20, 30>>, <<48, 2, 0, 1, 7>>,
          <<38, 5>>, <<38, 2, 10>>, <<48, 2>>,
          <<38, 5, 0, 7>>, <<48, 2, 0, 0, 0, 0>>,
          <<38, 4>>, <<38, 7>>, <<48, 0>> } }

NextExt ==
    \E chunk \in ExtChunks : calls < MaxExtCalls /\ Deliver(chunk)

SpecExt == Init /\ [][NextExt]_vars

\* The single code that sets what 38 (foreground) or 48 (background) sets.
PlainOf(tok) == IF DecValue(tok) = 38 THEN Dec(31) ELSE Dec(41)

\* C8: after 38 or 48, a 5 is taken with one more parameter and a 2 with
\* three more, whatever they are: the sequence writes and leaves what it
\* would with a plain color code in their place.  ESC[38;2;10;20;30m with
\* bold disabled writes nothing, ESC[38;5;0m does not reset the model, and a
\* list that ends early takes nothing from the sequence after it.
C8_ExtendedColorTaken ==
    /\ SgrCompleted =>
          LET toks == split(CompletedParams)
              k    == IF DecValue(toks[2]) = 5 THEN 3 ELSE 5
              same == <<PlainOf(toks[1])>> \o SubSeq(toks, k + 1, Len(toks))
              ref  == handle_sgr([pre EXCEPT !.state = "Init",
                                             !.buffer = Join(same)])
          IN  ( /\ Len(toks) >= 2
                /\ DecValue(toks[1]) \in {38, 48}
                /\ DecValue(toks[2]) \in {5, 2} )
              => /\ written = ref.w
                 /\ ModelOf(Self) = ModelOf(ref.self)
    /\ \A x \in {0, 1, 7, 999} :
          SgrDone(Join(<<Dec(38), Dec(5), Dec(x)>>)) =>
              /\ ModelOf(Self) = [ModelOf(pre) EXCEPT !.foreground_set = TRUE]
              /\ ~bold_colors => written = <<>>
    /\ SgrDone(Join(<<Dec(38), Dec(2), Dec(10), Dec(20), Dec(30)>>)) =>
          /\ ModelOf(Self) = [ModelOf(pre) EXCEPT !.foreground_set = TRUE]
          /\ ~bold_colors => written = <<>>
    /\ SgrDone(Join(<<Dec(48), Dec(2), Dec(0), Dec(1), Dec(7)>>)) =>
          ModelOf(Self) = [ModelOf(pre) EXCEPT !.background_set = TRUE]
    /\ SgrDone(Dec(7)) =>
          /\ video_reversed
          /\ written = IF pre.video_reversed THEN <<>>
                       ELSE SgrOf(<<IF pre.background_set THEN 27 ELSE 7>>)

\* ESC[38;5;0m after the child asked for reverse video and high intensity.
C8_Witness ==
    /\ SgrDone(Join(<<Dec(38), Dec(5), Dec(0)>>))
    /\ pre.video_reversed
    /\ pre.intensity = "High"
    /\ written = <<>>
    /\ ModelOf(Self) = [ModelOf(pre) EXCEPT !.foreground_set = TRUE]

(***************************************************************************)
(* The capacity of the buffer, checked under SpecCap: the calls deliver    *)
(* ESC '[', a run of parameters one byte short of the capacity, and single *)
(* bytes that fill the buffer, exceed it or end the sequence.              *)
(***************************************************************************)
MaxCapCalls == 5

\* 4;4;...;4 in n bytes, n odd.
ParamRun(n) == [i \in 1..n |-> IF i % 2 = 1 THEN Digit(4) ELSE SEMICOLON]

\* n times the parameter 4.
Fours(n) == [i \in 1..n |-> Dec(4)]

CapChunks ==
    { <<ESC, LBRACKET>>, ParamRun(SGR_MAX_LEN - 1), <<Digit(1)>>,
      <<SEMICOLON>>, <<LOWER_M>>, <<ESC>> }

NextCap ==
    \E chunk \in CapChunks : calls < MaxCapCalls /\ Deliver(chunk)

SpecCap == Init /\ [][NextCap]_vars

\* s ends with t.
EndsWith(s, t) ==
    /\ Len(t) <= Len(s)
    /\ SubSeq(s, Len(s) - Len(t) + 1, Len(s)) = t

\* C9: a digit or ';' that arrives when the buffer holds 128 bytes is written
\* after ESC '[' and the 128 bytes, the scanner is back in Init and the model
\* is as before; a sequence with more than 128 parameter bytes comes out as
\* it went in; an 'm' that arrives when the buffer holds exactly 128 bytes is
\* handled as the end of an SGR sequence.
C9_OverlongForwarded ==
    /\ ( /\ pre.state = "AfterCsi"
         /\ Len(pre.buffer) = SGR_MAX_LEN
         /\ Len(data) = 1
         /\ data[1] \in ParamBytes )
       => /\ written = <<ESC, LBRACKET>> \o pre.buffer \o data
          /\ state = "Init"
          /\ ModelOf(Self) = ModelOf(pre)
    /\ (IsSgrChunk(input) /\ Len(ParamsOf(input)) > SGR_MAX_LEN)
       => /\ output = input
          /\ state = "Init"
          /\ ModelOf(Self) = ModelOf(new(bold_colors))
    /\ SgrDone(ParamRun(SGR_MAX_LEN - 1) \o <<Digit(1)>>)
       => /\ state = "Init"
          /\ background_set
          /\ written =
               Sgr(Join(Fours(SGR_MAX_LEN \div 2 - 1)
                        \o (IF pre.background_set THEN <<>>
                            ELSE IF pre.video_reversed THEN <<Dec(27)>>
                            ELSE <<Dec(7)>>)))
    /\ SgrDone(ParamRun(SGR_MAX_LEN - 1) \o <<SEMICOLON>>)
       => /\ state = "Init"
          /\ ModelOf(Self) = ModelOf(new(bold_colors))
          /\ written = Sgr(Join(Fours(SGR_MAX_LEN \div 2) \o <<Dec(0)>>))

\* ESC '[', 129 parameter bytes and 'm' have gone through.
C9_Witness ==
    /\ IsSgrChunk(input)
    /\ Len(ParamsOf(input)) = SGR_MAX_LEN + 1
    /\ pre.state = "Init"
    /\ data = <<LOWER_M>>
    /\ output = input

\* C10: the buffer never holds more than 128 bytes; in AfterCsi it holds
\* digits and ';' only, and they are the bytes that came after the most
\* recent ESC '['.
C10_BufferBounded ==
    /\ Len(buffer) <= SGR_MAX_LEN
    /\ state = "AfterCsi" =>
          /\ \A i \in 1..Len(buffer) : buffer[i] \in ParamBytes
          /\ EndsWith(input, <<ESC, LBRACKET>> \o buffer)

\* The buffer is full, in a sequence that is not the first.
C10_Witness ==
    /\ state = "AfterCsi"
    /\ Len(buffer) = SGR_MAX_LEN
    /\ Len(input) > SGR_MAX_LEN + 2

(***************************************************************************)
(* The shape of what a sequence writes, checked under SpecArgs.            *)
(***************************************************************************)
ReverseTails == {<<>>, <<Dec(7)>>, <<Dec(27)>>}
IntensityTails == {<<>>, <<Dec(1)>>, <<Dec(2)>>, <<Dec(22)>>}

\* C11: a finished SGR sequence writes nothing, or one sequence ESC '['
\* t1;...;tn 'm' with n >= 1 and no empty parameter: the forwarded parameters
\* and the 0s in the order they came in, then at most one of 7 and 27, then
\* at most one of 1, 2 and 22.
C11_WellFormedOutput ==
    SgrCompleted =>
        LET toks == split(CompletedParams)
            body == Pick(toks, ForwardedAt(toks) \cup ZeroAt(toks), 1)
            text == [i \in 1..Len(body) |-> ZeroText(body[i])]
        IN  \/ written = <<>>
            \/ /\ IsSgrChunk(written)
               /\ \A i \in 1..Len(WrittenParams) : WrittenParams[i] # <<>>
               /\ \E r \in ReverseTails : \E n \in IntensityTails :
                      WrittenParams = text \o r \o n

\* 4;0;41;31 with bold enabled is written as 4;0;7;1.
C11_Witness ==
    /\ SgrDone(Join(<<Dec(4), Dec(0), Dec(41), Dec(31)>>))
    /\ bold_colors
    /\ pre.video_reversed
    /\ written = SgrOf(<<4, 0, 7, 1>>)

(***************************************************************************)
(* A requested intensity and the bold option, checked under SpecColor.     *)
(***************************************************************************)
IntensityTexts == {Dec(1), Dec(2), Dec(22)}

\* Every dispatched parameter is a foreground color code, 38 or 39.
ForegroundOnly(toks) ==
    LET marks == Marks(toks)
    IN  \A i \in 1..Len(toks) :
            marks[i] => DecValue(toks[i]) \in ForegroundCodes \cup {38, 39}

\* C12: with bold enabled, a 1 or a 2 from the child leaves the intensity
\* High or Low, and while it is (until a 22 or a 0) a sequence that only sets
\* or clears foreground colors writes no 1, 2 or 22 and leaves the intensity
\* as it is.
C12_ExplicitIntensityKept ==
    /\ SgrDone(Dec(1)) => intensity = "High"
    /\ SgrDone(Dec(2)) => intensity = "Low"
    /\ SgrDone(Dec(22)) \/ SgrDone(Dec(0)) => intensity = "Normal"
    /\ ( /\ bold_colors
         /\ SgrCompleted
         /\ pre.intensity # "Normal"
         /\ ForegroundOnly(split(CompletedParams)) )
       => /\ \A i \in 1..Len(WrittenParams) :
                 WrittenParams[i] \notin IntensityTexts
          /\ intensity = pre.intensity

\* Bold enabled, 39 after the child asked for low intensity and a color.
C12_Witness ==
    /\ bold_colors
    /\ SgrDone(Dec(39))
    /\ pre.intensity = "Low"
    /\ pre.foreground_set
    /\ ~foreground_set
    /\ written = <<>>

(***************************************************************************)
(* Bytes held back and bytes written, checked under SpecCap.               *)
(***************************************************************************)
\* The bytes the scanner has taken in and not yet written.
Held(f) ==
    CASE f.state = "Init" -> <<>>
      [] f.state = "AfterEsc" -> <<ESC>>
      [] f.state = "AfterCsi" -> <<ESC, LBRACKET>> \o f.buffer

\* One byte of each kind handle_byte tells apart, and the two ends of u8.
ByteKinds ==
    {0, ESC, LBRACKET, LOWER_M, SEMICOLON, ZERO, NINE, U8_MAX}
    \cup NonSgrFinal

\* C13: as long as no sequence has reached handle_sgr, the output followed
\* by the bytes held back (nothing, ESC, or ESC '[' and the buffer) is the
\* input; every byte but an 'm' in AfterCsi keeps that so; ESC and a byte
\* other than '[' are written as the pair they are, back in Init.
C13_NoByteDropped ==
    /\ finalized = 0 => output \o Held(Self) = input
    /\ \A b \in ByteKinds :
          ~(state = "AfterCsi" /\ b = LOWER_M) =>
              LET r == handle_byte(Self, b)
              IN  Held(Self) \o <<b>> = r.w \o Held(r.self)
    /\ ( /\ pre.state = "AfterEsc"
         /\ Len(data) = 1
         /\ data[1] # LBRACKET )
       => /\ written = <<ESC>> \o data
          /\ state = "Init"

\* A parameter run went over the capacity and was written; an ESC is held.
C13_Witness ==
    /\ finalized = 0
    /\ Len(output) > SGR_MAX_LEN + 2
    /\ state = "AfterEsc"
    /\ output \o <<ESC>> = input

(***************************************************************************)
(* The command line, checked under SpecCli: the process starts with some   *)
(* arguments and main runs parse_args on them.                             *)
(***************************************************************************)
MaxArgv == 3

\* "--", "-", "--bold", "-b", "-bv", "--help", "--version", "-h", and two
\* options that do not exist, "--b" and "-x"; and the command.
CliWords ==
    { <<DASH, DASH>>, <<DASH>>, LongBold, <<DASH, LOWER_B>>,
      <<DASH, LOWER_B, LOWER_V>>, LongHelp, LongVersion, <<DASH, LOWER_H>>,
      <<DASH, DASH, LOWER_B>>, <<DASH, 120>>, Command }

ArgLists == UNION { [1..k -> CliWords] : k \in 0..MaxArgv }

\* The process has started and main has not run parse_args; there is no
\* filter yet, its variables hold what new gives them.
InitCli ==
    /\ argv \in ArgLists
    /\ parsed = None
    /\ bold_colors = FALSE
    /\ state = new(FALSE).state
    /\ background_set = new(FALSE).background_set
    /\ video_reversed = new(FALSE).video_reversed
    /\ foreground_set = new(FALSE).foreground_set
    /\ intensity = new(FALSE).intensity
    /\ buffer = new(FALSE).buffer
    /\ input = <<>>
    /\ output = <<>>
    /\ data = <<>>
    /\ written = <<>>
    /\ pre = new(FALSE)
    /\ calls = 0
    /\ finalized = 0

\* main up to filterm::run: parse_args, and Filter::new(args.bold) unless
\* parse_args has exited.
Main ==
    /\ parsed = None
    /\ \E r \in {parse_args(argv)} :
          /\ parsed' = Some(r)
          /\ bold_colors' = IF r.exit = None THEN new(r.bold).bold_colors
                            ELSE bold_colors
    /\ UNCHANGED <<state, background_set, video_reversed, foreground_set,
                   intensity, buffer, input, output, data, written, pre,
                   calls, finalized, argv>>

NextCli == Main

SpecCli == InitCli /\ [][NextCli]_vars

\* What parse_args came to.
Parsed == CHOOSE r \in parsed : TRUE

\* An argument that starts with '-' and is not "-" alone.
OptionLike(arg) == Len(arg) >= 2 /\ arg[1] = DASH

\* "--bold", or '-' and one or more 'b'.
BoldOption(arg) ==
    \/ arg = LongBold
    \/ /\ OptionLike(arg)
       /\ \A i \in 2..Len(arg) : arg[i] = LOWER_B

\* Where the options end: the first argument that is not like an option, or
\* the first "--"; past the end if there is neither.
Stop(args) ==
    CHOOSE k \in 1..(Len(args) + 1) :
        /\ k <= Len(args) => ~OptionLike(args[k]) \/ args[k] = <<DASH, DASH>>
        /\ \A i \in 1..(k - 1) :
              OptionLike(args[i]) /\ args[i] # <<DASH, DASH>>

\* The arguments from there on, without the "--" if that is what ended the
\* options.
Remaining(args) ==
    LET k == Stop(args)
    IN  IF k <= Len(args) /\ args[k] = <<DASH, DASH>>
        THEN SubSeq(args, k + 1, Len(args))
        ELSE SubSeq(args, k, Len(args))

\* C14: the options end at the first argument that is not an option ("-"
\* is not one) or at the first "--".  The command is the arguments from
\* there on, in order, without that "--", whatever they look like; the
\* filter gets bold from the options before; with bold options alone before
\* it the command runs, and without a command the usage goes to stderr and
\* the status is 1.
C14_OptionsEndAtCommand ==
    parsed # None =>
        LET k    == Stop(argv)
            rest == Remaining(argv)
        IN  /\ Parsed.exit = None =>
                  /\ Parsed.command = rest
                  /\ rest # <<>>
                  /\ Parsed.bold = (k > 1)
                  /\ bold_colors = Parsed.bold
            /\ (\A i \in 1..(k - 1) : BoldOption(argv[i])) =>
                  IF rest = <<>>
                  THEN Parsed.exit =
                           Some([code |-> 1, stdout |-> "", stderr |-> "USAGE"])
                  ELSE /\ Parsed.exit = None
                       /\ Parsed.command = rest

\* -b -- --help: the command is --help, with bold.
C14_Witness ==
    /\ parsed # None
    /\ argv = << <<DASH, LOWER_B>>, <<DASH, DASH>>, LongHelp >>
    /\ Parsed.exit = None
    /\ Parsed.command = <<LongHelp>>
    /\ bold_colors

(***************************************************************************)
(* The tokens a sequence ends with, checked under SpecSync: every call     *)
(* delivers one whole sequence, with and without 0s, or a byte of text.    *)
(***************************************************************************)
MaxSyncCalls == 3

SyncChunks ==
    { SgrOf(codes) : codes \in
        { <<7>>, <<27>>, <<41>>, <<49>>, <<31>>, <<1>>, <<2>>, <<22>>, <<0>>,
          <<0, 7>>, <<7, 0>>, <<0, 41>>, <<1, 0, 31>>, <<4, 0, 41, 31>> } }
    \cup { <<LOWER_M>> }

NextSync ==
    \E chunk \in SyncChunks : calls < MaxSyncCalls /\ Deliver(chunk)

SpecSync == Init /\ [][NextSync]_vars

\* The reverse video and the intensity the terminal is to show for f.
DerivedReverse(f) == f.background_set # f.video_reversed

DerivedIntensity(f) ==
    IF f.intensity = "Normal" /\ f.bold_colors /\ f.foreground_set
    THEN "High"
    ELSE f.intensity

IntensityText(i) ==
    CASE i = "High" -> Dec(1)
      [] i = "Low" -> Dec(2)
      [] i = "Normal" -> Dec(22)

\* The 7 or 27, and the 1, 2 or 22, among the written parameters.  Forwarded
\* parameters are none of them, so these are the tokens appended at the end.
ReverseTail ==
    {WrittenParams[i] : i \in 1..Len(WrittenParams)} \cap {Dec(7), Dec(27)}

IntensityTail ==
    {WrittenParams[i] : i \in 1..Len(WrittenParams)} \cap IntensityTexts

\* C15 as stated: a 7 or 27 is appended exactly when the reverse video
\* derived after the sequence differs from that derived before it, and a 1,
\* 2 or 22 exactly when the derived intensity does, whatever the sequence
\* holds.
C15_ComparedWithBefore ==
    SgrCompleted =>
        /\ ReverseTail # {} <=> DerivedReverse(Self) # DerivedReverse(pre)
        /\ IntensityTail # {}
               <=> DerivedIntensity(Self) # DerivedIntensity(pre)

\* C15: the values derived after the sequence are compared with those
\* derived before it if the sequence dispatches no 0, and with reverse off
\* and intensity Normal if it dispatches one: a 7 (on) or 27 (off) is
\* appended exactly when the reverse video differs, and the 1, 2 or 22 of
\* the new intensity exactly when the intensity differs.
C15_ComparedWithSnapshot ==
    SgrCompleted =>
        LET zero == ZeroAt(split(CompletedParams)) # {}
            rev0 == IF zero THEN FALSE ELSE DerivedReverse(pre)
            int0 == IF zero THEN "Normal" ELSE DerivedIntensity(pre)
            rev1 == DerivedReverse(Self)
            int1 == DerivedIntensity(Self)
        IN  /\ ReverseTail = IF rev1 = rev0 THEN {}
                             ELSE IF rev1 THEN {Dec(7)} ELSE {Dec(27)}
            /\ IntensityTail = IF int1 = int0 THEN {}
                               ELSE {IntensityText(int1)}

\* 0;41 while reverse video is shown for a background: 7 is appended though
\* the reverse video is the same before and after.
C15_Witness ==
    /\ SgrDone(Join(<<Dec(0), Dec(41)>>))
    /\ DerivedReverse(pre)
    /\ DerivedReverse(Self)
    /\ written = SgrOf(<<0, 7>>)

(***************************************************************************)
(* The parameter after a 38 or 48 that is neither 5 nor 2, checked under   *)
(* SpecExt.                                                                *)
(***************************************************************************)
WrittenSet == {WrittenParams[i] : i \in 1..Len(WrittenParams)}

\* C16 as stated: the parameter after a 38 or 48 that is neither 5 nor 2 is
\* dispatched; in 38;4 the 4 is forwarded, in 38;7 reverse video is set, in
\* 48;0 the model is reset and 0 is written.
C16_OtherNextDispatched ==
    /\ SgrDone(Join(<<Dec(38), Dec(4)>>)) => Dec(4) \in WrittenSet
    /\ SgrDone(Join(<<Dec(38), Dec(7)>>)) => video_reversed
    /\ SgrDone(Join(<<Dec(48), Dec(0)>>)) =>
          /\ ModelOf(Self) = ModelOf(new(bold_colors))
          /\ Dec(0) \in WrittenSet

\* C16: the parameter after a 38 or 48 is taken whatever it is; if it is
\* neither 5 nor 2 nothing more is taken, and the sequence writes and leaves
\* what it would with a plain color code in place of the two.  In 38;4 the 4
\* is not written, in 38;7 reverse video is as before, in 48;0 nothing is
\* reset and no 0 is written.
C16_OtherNextTaken ==
    /\ SgrCompleted =>
          LET toks == split(CompletedParams)
              same == <<PlainOf(toks[1])>> \o SubSeq(toks, 3, Len(toks))
              ref  == handle_sgr([pre EXCEPT !.state = "Init",
                                             !.buffer = Join(same)])
          IN  ( /\ Len(toks) >= 2
                /\ DecValue(toks[1]) \in {38, 48}
                /\ DecValue(toks[2]) \notin {5, 2} )
              => /\ written = ref.w
                 /\ ModelOf(Self) = ModelOf(ref.self)
    /\ SgrDone(Join(<<Dec(38), Dec(4)>>)) =>
          /\ Dec(4) \notin WrittenSet
          /\ ModelOf(Self) = [ModelOf(pre) EXCEPT !.foreground_set = TRUE]
    /\ SgrDone(Join(<<Dec(38), Dec(7)>>)) =>
          ModelOf(Self) = [ModelOf(pre) EXCEPT !.foreground_set = TRUE]
    /\ SgrDone(Join(<<Dec(48), Dec(0)>>)) =>
          /\ ModelOf(Self) = [ModelOf(pre) EXCEPT !.background_set = TRUE]
          /\ Dec(0) \notin WrittenSet

\* 48;0 while reverse video and high intensity are requested: both stay.
C16_Witness ==
    /\ SgrDone(Join(<<Dec(48), Dec(0)>>))
    /\ pre.video_reversed
    /\ pre.intensity = "High"
    /\ ~pre.background_set
    /\ video_reversed
    /\ intensity = "High"
    /\ written = SgrOf(<<27>>)

(***************************************************************************)
(* What a byte may change, checked under SpecFrame: the calls deliver a    *)
(* whole sequence that sets the model, ESC '[' with parameters one byte    *)
(* short of the capacity, and single bytes of every kind.                  *)
(***************************************************************************)
MaxFrameCalls == 4

FrameChunks ==
    { SgrOf(<<7>>), <<ESC, LBRACKET>> \o ParamRun(SGR_MAX_LEN - 1),
      <<ESC>>, <<LBRACKET>>, <<Digit(1)>>, <<SEMICOLON>>, <<LOWER_M>> }
    \cup { <<b>> : b \in NonSgrFinal }

NextFrame ==
    \E chunk \in FrameChunks : calls < MaxFrameCalls /\ Deliver(chunk)

SpecFrame == Init /\ [][NextFrame]_vars

\* C17: a byte other than an 'm' that finds the scanner in AfterCsi leaves
\* the four fields of the model as they are, whether it was delivered or is
\* the next to come; bold_colors is what the filter was constructed with.
C17_ModelChangesAtSgrOnly ==
    /\ bold_colors = pre.bold_colors
    /\ bold_colors = Parsed.bold
    /\ ( /\ Len(data) = 1
         /\ ~(pre.state = "AfterCsi" /\ data[1] = LOWER_M) )
       => ModelOf(Self) = ModelOf(pre)
    /\ \A b \in ByteKinds :
          ~(state = "AfterCsi" /\ b = LOWER_M) =>
              LET r == handle_byte(Self, b)
              IN  /\ ModelOf(r.self) = ModelOf(Self)
                  /\ r.self.bold_colors = bold_colors

\* Reverse video is set and a digit arrives when the buffer is full.
C17_Witness ==
    /\ pre.state = "AfterCsi"
    /\ Len(pre.buffer) = SGR_MAX_LEN
    /\ data = <<Digit(1)>>
    /\ state = "Init"
    /\ video_reversed
    /\ ModelOf(Self) = ModelOf(pre)

(***************************************************************************)
(* Numbers above 255 and leading zeros, checked under SpecNum: every call  *)
(* delivers one sequence with one parameter.                               *)
(***************************************************************************)
MaxNumCalls == 3

\* The text made of the decimal digits ds.
Digits(ds) == [i \in 1..Len(ds) |-> Digit(ds[i])]

\* 7, 41, 1; 256, 263, 297 and 999; 007, 00, 041; 0256.
NumChunks ==
    { Sgr(Digits(ds)) : ds \in
        { <<7>>, <<4, 1>>, <<1>>,
          <<2, 5, 6>>, <<2, 6, 3>>, <<2, 9, 7>>, <<9, 9, 9>>,
          <<0, 0, 7>>, <<0, 0>>, <<0, 4, 1>>,
          <<0, 2, 5, 6>> } }

NextNum ==
    \E chunk \in NumChunks : calls < MaxNumCalls /\ Deliver(chunk)

SpecNum == Init /\ [][NextNum]_vars

\* C18: a parameter with a value above 255 is written as it came and
\* changes nothing in the model; a parameter with leading zeros and the
\* value of a code of the table does what the code written without them
\* does: 007 sets reverse video, 00 resets and is written as 0.
C18_ValueNotWrapped ==
    /\ (SgrCompleted /\ Len(split(CompletedParams)) = 1) =>
          LET tok == CompletedParams
              ref == handle_sgr([pre EXCEPT !.state = "Init",
                                            !.buffer = Dec(DecValue(tok))])
          IN  /\ DecValue(tok) > U8_MAX =>
                    /\ written = Sgr(tok)
                    /\ ModelOf(Self) = ModelOf(pre)
              /\ DecValue(tok) \in TableCodes =>
                    /\ written = ref.w
                    /\ ModelOf(Self) = ModelOf(ref.self)
    /\ SgrDone(Digits(<<0, 0, 7>>)) => video_reversed
    /\ SgrDone(Digits(<<0, 0>>)) =>
          /\ written = SgrOf(<<0>>)
          /\ ModelOf(Self) = ModelOf(new(bold_colors))

\* 297 while reverse video is requested: no background is set, nothing but
\* 297 is written.
C18_Witness ==
    /\ SgrDone(Digits(<<2, 9, 7>>))
    /\ pre.video_reversed
    /\ ~pre.background_set
    /\ ~background_set
    /\ written = Sgr(Digits(<<2, 9, 7>>))

(***************************************************************************)
(* Chunks, checked under Spec: the same bytes reach the filter cut in      *)
(* different places.                                                       *)
(***************************************************************************)
\* C19: however the input was cut into calls, the output and the filter are
\* what one call with the whole input gives; so any two ways of cutting the
\* same bytes give the same output, state, buffer and model.
C19_ChunkingIrrelevant ==
    LET whole == on_child_data(new(bold_colors), input)
    IN  /\ output = whole.w
        /\ Self = whole.self

\* ESC[31m ESC delivered as ESC, '[', 31, 'm' and ESC: cut after ESC and in the
\* parameters.
C19_Witness ==
    /\ calls = 5
    /\ input = SgrOf(<<31>>) \o <<ESC>>
    /\ foreground_set
    /\ state = "AfterEsc"
    /\ output = IF bold_colors THEN SgrOf(<<1>>) ELSE <<>>

(***************************************************************************)
(* The terminal that receives the output, checked under SpecSync.          *)
(***************************************************************************)
\* A terminal as the session starts: reverse off, intensity Normal.
TerminalStart == [reverse |-> FALSE, intensity |-> "Normal"]

\* What one parameter does to the two attributes.
TerminalParam(t, tok) ==
    LET v == DecValue(tok)
    IN  IF v = 0 THEN TerminalStart
        ELSE IF v = 7 THEN [t EXCEPT !.reverse = TRUE]
        ELSE IF v = 27 THEN [t EXCEPT !.reverse = FALSE]
        ELSE IF v = 1 THEN [t EXCEPT !.intensity = "High"]
        ELSE IF v = 2 THEN [t EXCEPT !.intensity = "Low"]
        ELSE IF v = 22 THEN [t EXCEPT !.intensity = "Normal"]
        ELSE t

RECURSIVE TerminalParams(_, _)
TerminalParams(t, toks) ==
    IF toks = <<>> THEN t
    ELSE TerminalParams(TerminalParam(t, Head(toks)), Tail(toks))

\* The first 'm' of s after position i, past the end if there is none.
NextM(s, i) ==
    CHOOSE j \in (i + 1)..(Len(s) + 1) :
        /\ j <= Len(s) => s[j] = LOWER_M
        /\ \A k \in (i + 1)..(j - 1) : s[k] # LOWER_M

\* An SGR sequence starts at position i of s.
SgrAt(s, i) ==
    /\ s[i] = ESC
    /\ NextM(s, i) <= Len(s)
    /\ IsSgrChunk(SubSeq(s, i, NextM(s, i)))

\* The terminal after the bytes of s from position i on: the parameters of
\* every SGR sequence are applied in order, other bytes are text.
RECURSIVE Terminal(_, _, _)
Terminal(t, s, i) ==
    IF i > Len(s) THEN t
    ELSE IF SgrAt(s, i)
    THEN Terminal(TerminalParams(t, split(SubSeq(s, i + 2, NextM(s, i) - 1))),
                  s, NextM(s, i) + 1)
    ELSE Terminal(t, s, i + 1)

\* Every ESC of s starts an SGR sequence with parameters within the
\* capacity.
SgrAndText(s) ==
    \A i \in 1..Len(s) :
        s[i] = ESC =>
            /\ SgrAt(s, i)
            /\ NextM(s, i) - i - 2 <= SGR_MAX_LEN

\* C20: when the input is SGR sequences within the capacity and text, the
\* terminal that has received the output shows reverse video exactly when
\* one of background_set and video_reversed holds, and the intensity High
\* for Normal with bold enabled and a foreground set, else the intensity of
\* the model.
C20_TerminalInSync ==
    SgrAndText(input) =>
        Terminal(TerminalStart, output, 1)
            = [ reverse   |-> DerivedReverse(Self),
                intensity |-> DerivedIntensity(Self) ]

\* Text, 41, then 1;0;31 with bold enabled: 0;1 is written, the terminal
\* leaves reverse video and stays at high intensity.
C20_Witness ==
    /\ bold_colors
    /\ calls = 3
    /\ input[1] = LOWER_M
    /\ SgrDone(Join(<<Dec(1), Dec(0), Dec(31)>>))
    /\ DerivedReverse(pre)
    /\ written = SgrOf(<<0, 1>>)
    /\ Terminal(TerminalStart, output, 1)
           = [reverse |-> FALSE, intensity |-> "High"]

====
